---- MODULE Spec2Model ----
(***************************************************************************)
(* Model of src/univalue/lib/univalue_get.cpp: the strict numeric string   *)
(* parsers (ParsePrechecks, ParseInt32, ParseInt64, ParseUint64,           *)
(* ParseDouble) and the typed accessors of UniValue built on them.         *)
(*                                                                         *)
(* A std::string is a sequence of characters; a character is a one-token   *)
(* string ("0".."9", "+", "-", ".", "e", "p", "x", "X", "a") or one of the *)
(* named control characters "SP", "HT", "LF", "VT", "FF", "CR", "NUL".     *)
(* Integers are kept exact as sign + magnitude, the magnitude a            *)
(* little-endian sequence of 16-bit limbs, so that 64-bit values, their    *)
(* wrap-around and their narrowing casts are computed at full width.       *)
(***************************************************************************)
EXTENDS Integers, Sequences, FiniteSets, TLC

VARIABLES typ, val, keys, values, errno, longBits, lib, first, last

vars == <<typ, val, keys, values, errno, longBits, lib, first, last>>

(* ------------------------------------------------------------------ *)
(* Bounds of the model                                                  *)
(* ------------------------------------------------------------------ *)

\* every string over ShortChars of at most this length is an input
MaxLen == 2

\* a digit string is tried with up to this many redundant leading zeros
MaxPad == 1

(* ------------------------------------------------------------------ *)
(* Characters                                                           *)
(* ------------------------------------------------------------------ *)

Digits == {"0", "1", "2", "3", "4", "5", "6", "7", "8", "9"}

DigitSeq == <<"0", "1", "2", "3", "4", "5", "6", "7", "8", "9">>

DigitVal(c) == CHOOSE d \in 0..9 : DigitSeq[d + 1] = c

HexDigits == Digits \cup {"a", "e"}

\* the characters isspace() holds for in the "C" locale: what strtol, strtoll
\* and strtoull skip, and what the classic-locale stream skips, at the front
Spaces == {"SP", "HT", "LF", "VT", "FF", "CR"}

\* json_isspace() of univalue.h: the four JSON white-space characters
json_isspace(c) == c \in {"SP", "HT", "LF", "CR"}

(* ------------------------------------------------------------------ *)
(* Exact naturals: little-endian limbs of 16 bits, no high zero limb    *)
(* ------------------------------------------------------------------ *)

Base == 256 * 256

RECURSIVE Norm(_)
Norm(a) ==
    IF a = <<>> THEN <<>>
    ELSE IF a[Len(a)] = 0 THEN Norm(SubSeq(a, 1, Len(a) - 1))
    ELSE a

\* a * m + c, for 0 <= m <= 10 and 0 <= c < Base
RECURSIVE MulAdd(_, _, _)
MulAdd(a, m, c) ==
    IF a = <<>> THEN (IF c = 0 THEN <<>> ELSE <<c>>)
    ELSE LET t == a[1] * m + c
         IN <<t % Base>> \o MulAdd(Tail(a), m, t \div Base)

\* -1, 0 or 1 as a < b, a = b, a > b (both normalised)
RECURSIVE CmpTop(_, _, _)
CmpTop(a, b, i) ==
    IF i = 0 THEN 0
    ELSE IF a[i] < b[i] THEN -1
    ELSE IF a[i] > b[i] THEN 1
    ELSE CmpTop(a, b, i - 1)

Cmp(a, b) ==
    IF Len(a) < Len(b) THEN -1
    ELSE IF Len(a) > Len(b) THEN 1
    ELSE CmpTop(a, b, Len(a))

\* a - b - borrow, limb by limb, for a >= b
RECURSIVE SubLimbs(_, _, _)
SubLimbs(a, b, borrow) ==
    IF a = <<>> THEN <<>>
    ELSE LET bl == IF b = <<>> THEN 0 ELSE b[1]
             t  == a[1] - bl - borrow
             bt == IF b = <<>> THEN <<>> ELSE Tail(b)
         IN IF t < 0 THEN <<t + Base>> \o SubLimbs(Tail(a), bt, 1)
            ELSE <<t>> \o SubLimbs(Tail(a), bt, 0)

Sub(a, b) == Norm(SubLimbs(a, b, 0))

\* 2^bits
Pow2(bits) ==
    [i \in 1..((bits \div 16) + 1) |->
        IF i = (bits \div 16) + 1 THEN 2 ^ (bits % 16) ELSE 0]

One == <<1>>

\* a mod 2^bits
Low(a, bits) ==
    LET full == bits \div 16
        part == bits % 16
    IN Norm(SubSeq(a, 1, IF Len(a) < full THEN Len(a) ELSE full)
            \o (IF part > 0 /\ Len(a) > full
                THEN <<a[full + 1] % (2 ^ part)>> ELSE <<>>))

\* the value of a run of decimal digits
RECURSIVE DigitsValue(_, _)
DigitsValue(ds, acc) ==
    IF ds = <<>> THEN acc
    ELSE DigitsValue(Tail(ds), MulAdd(acc, 10, DigitVal(Head(ds))))

\* quotient and remainder of a by 10, from the top limb down; q collects the
\* quotient's limbs
RECURSIVE DivMod10(_, _, _, _)
DivMod10(a, i, rem, q) ==
    IF i = 0 THEN [q |-> Norm(q), r |-> rem]
    ELSE DivMod10(a, i - 1, (rem * Base + a[i]) % 10,
                  <<(rem * Base + a[i]) \div 10>> \o q)

\* the decimal digits of a in front of acc, most significant first
RECURSIVE DigitsOf(_, _)
DigitsOf(a, acc) ==
    IF a = <<>> THEN acc
    ELSE DigitsOf(DivMod10(a, Len(a), 0, <<>>).q,
                  <<DigitSeq[DivMod10(a, Len(a), 0, <<>>).r + 1]>> \o acc)

\* the decimal digits of a ("0" for zero)
ToDigits(a) == IF a = <<>> THEN <<"0">> ELSE DigitsOf(a, <<>>)

(* ------------------------------------------------------------------ *)
(* Machine integers: sign and magnitude, zero is never negative         *)
(* ------------------------------------------------------------------ *)

MkInt(neg, mag) == [neg |-> neg /\ mag # <<>>, mag |-> mag]

\* a <= b on integers
IntLE(a, b) ==
    IF a.neg /\ ~b.neg THEN TRUE
    ELSE IF ~a.neg /\ b.neg THEN FALSE
    ELSE IF a.neg THEN Cmp(a.mag, b.mag) >= 0
    ELSE Cmp(a.mag, b.mag) <= 0

\* std::numeric_limits<intN_t>::min() / max(), <uintN_t>::max()
IntMin(bits) == MkInt(TRUE, Pow2(bits - 1))

IntMax(bits) == MkInt(FALSE, Sub(Pow2(bits - 1), One))

UintMax(bits) == MkInt(FALSE, Sub(Pow2(bits), One))

\* n reduced modulo 2^bits into 0 .. 2^bits - 1 (a cast to uintN_t)
CastUnsigned(n, bits) ==
    LET lo == Low(n.mag, bits)
    IN IF n.neg /\ lo # <<>> THEN MkInt(FALSE, Sub(Pow2(bits), lo))
       ELSE MkInt(FALSE, lo)

\* CastSigned with the sign lost: the cast goes to the unsigned type
CastSigned_Unsigned(n, bits) == CastUnsigned(n, bits)

\* n reduced modulo 2^bits into -2^(bits-1) .. 2^(bits-1) - 1 (a cast to intN_t)
CastSigned(n, bits) ==
    LET u == CastUnsigned(n, bits)
    IN IF Cmp(u.mag, Pow2(bits - 1)) >= 0
       THEN MkInt(TRUE, Sub(Pow2(bits), u.mag))
       ELSE u

\* the decimal text of an integer, as printing it gives
IntText(n) == (IF n.neg THEN <<"-">> ELSE <<>>) \o ToDigits(n.mag)

(* ------------------------------------------------------------------ *)
(* Strings                                                              *)
(* ------------------------------------------------------------------ *)

\* the first index >= i of s whose character is not in S (Len(s) + 1 if none)
RECURSIVE SkipSet(_, _, _)
SkipSet(s, i, S) ==
    IF i > Len(s) \/ s[i] \notin S THEN i ELSE SkipSet(s, i + 1, S)

\* the first index >= i of s whose character is c (Len(s) + 1 if none)
RECURSIVE Find(_, _, _)
Find(s, i, c) ==
    IF i > Len(s) \/ s[i] = c THEN i ELSE Find(s, i + 1, c)

\* str.c_str() as C functions read it: the characters before the first NUL
c_str(str) == SubSeq(str, 1, Find(str, 1, "NUL") - 1)

strlen(s) == Len(c_str(s))

\* *(s + off) for a NUL-terminated s
Deref(s, off) == IF off >= Len(s) THEN "NUL" ELSE s[off + 1]

(* ------------------------------------------------------------------ *)
(* errno values                                                         *)
(* ------------------------------------------------------------------ *)

ERANGE == 34

EINTR == 4

(* ------------------------------------------------------------------ *)
(* strtol, strtoll, strtoull (base 10)                                  *)
(* ------------------------------------------------------------------ *)

\* The subject sequence of nptr: white space, an optional sign, digits.
\* endp is the offset just past the last digit, 0 when there is no digit.
ScanInt(nptr) ==
    LET i == SkipSet(nptr, 1, Spaces)
        signed == i <= Len(nptr) /\ nptr[i] \in {"+", "-"}
        j == IF signed THEN i + 1 ELSE i
        k == SkipSet(nptr, j, Digits)
    IN [neg    |-> signed /\ nptr[i] = "-",
        digits |-> SubSeq(nptr, j, k - 1),
        endp   |-> IF k > j THEN k - 1 ELSE 0]

\* strtol / strtoll for a long of the given width: the value is clamped to
\* the type's range and errno set to ERANGE when it does not fit
StrToSigned(nptr, e, bits) ==
    LET sc  == ScanInt(nptr)
        mag == DigitsValue(sc.digits, <<>>)
        lim == IF sc.neg THEN IntMin(bits) ELSE IntMax(bits)
    IN IF sc.digits = <<>> THEN [n |-> MkInt(FALSE, <<>>), endp |-> 0, errno |-> e]
       ELSE IF Cmp(mag, lim.mag) > 0 THEN [n |-> lim, endp |-> sc.endp, errno |-> ERANGE]
       ELSE [n |-> MkInt(sc.neg, mag), endp |-> sc.endp, errno |-> e]

strtol(nptr, e, bits) == StrToSigned(nptr, e, bits)

strtoll(nptr, e) == StrToSigned(nptr, e, 64)

\* strtoull: a magnitude above ULLONG_MAX is clamped with ERANGE; a leading
\* '-' negates the converted value in the unsigned type, without any error
strtoull(nptr, e) ==
    LET sc  == ScanInt(nptr)
        mag == DigitsValue(sc.digits, <<>>)
    IN IF sc.digits = <<>> THEN [n |-> MkInt(FALSE, <<>>), endp |-> 0, errno |-> e]
       ELSE IF Cmp(mag, UintMax(64).mag) > 0
            THEN [n |-> UintMax(64), endp |-> sc.endp, errno |-> ERANGE]
       ELSE [n |-> CastUnsigned(MkInt(sc.neg, mag), 64), endp |-> sc.endp, errno |-> e]

(* ------------------------------------------------------------------ *)
(* The parsers                                                          *)
(* ------------------------------------------------------------------ *)

\* ParsePrechecks without the embedded-NUL check
ParsePrechecks_NoNul(str) ==
    IF str = <<>> THEN FALSE
    ELSE IF Len(str) >= 1 /\ (json_isspace(str[1]) \/ json_isspace(str[Len(str)])) THEN FALSE
    ELSE TRUE

ParsePrechecks(str) ==
    IF str = <<>> THEN FALSE
    ELSE IF Len(str) >= 1 /\ (json_isspace(str[1]) \/ json_isspace(str[Len(str)])) THEN FALSE
    ELSE IF Len(str) # strlen(str) THEN FALSE
    ELSE TRUE

\* Each parser gives [ret, out, errno]: the returned flag, the output slot
\* (<<>> while nothing was stored in it) and errno after the call.
\* ParseInt32 with the upper limit excluded (n < max)
ParseInt32_StrictMax(str, e, bits) ==
    IF ~ParsePrechecks(str) THEN [ret |-> FALSE, out |-> <<>>, errno |-> e]
    ELSE LET r == strtol(c_str(str), 0, bits)
         IN [ret   |-> /\ Deref(c_str(str), r.endp) = "NUL"
                       /\ r.errno = 0
                       /\ IntLE(IntMin(32), r.n)
                       /\ IntLE(r.n, IntMax(32))
                       /\ r.n # IntMax(32),
             out   |-> <<CastSigned(r.n, 32)>>,
             errno |-> r.errno]

\* ParseInt32 without the check of the long against the int32_t range
ParseInt32_NoRangeCheck(str, e, bits) ==
    IF ~ParsePrechecks(str) THEN [ret |-> FALSE, out |-> <<>>, errno |-> e]
    ELSE LET r == strtol(c_str(str), 0, bits)
         IN [ret   |-> /\ Deref(c_str(str), r.endp) = "NUL"
                       /\ r.errno = 0,
             out   |-> <<CastSigned(r.n, 32)>>,
             errno |-> r.errno]

ParseInt32(str, e, bits) ==
    IF ~ParsePrechecks(str) THEN [ret |-> FALSE, out |-> <<>>, errno |-> e]
    ELSE LET r == strtol(c_str(str), 0, bits)
         IN [ret   |-> /\ Deref(c_str(str), r.endp) = "NUL"
                       /\ r.errno = 0
                       /\ IntLE(IntMin(32), r.n)
                       /\ IntLE(r.n, IntMax(32)),
             out   |-> <<CastSigned(r.n, 32)>>,
             errno |-> r.errno]

ParseInt64(str, e) ==
    IF ~ParsePrechecks(str) THEN [ret |-> FALSE, out |-> <<>>, errno |-> e]
    ELSE LET r == strtoll(c_str(str), 0)
         IN [ret   |-> /\ Deref(c_str(str), r.endp) = "NUL"
                       /\ r.errno = 0
                       /\ IntLE(IntMin(64), r.n)
                       /\ IntLE(r.n, IntMax(64)),
             out   |-> <<CastSigned(r.n, 64)>>,
             errno |-> r.errno]

\* ParseUint64 without errno = 0 before the conversion
ParseUint64_KeepErrno(str, e) ==
    IF ~ParsePrechecks(str) THEN [ret |-> FALSE, out |-> <<>>, errno |-> e]
    ELSE LET r == strtoull(c_str(str), e)
         IN [ret   |-> /\ Deref(c_str(str), r.endp) = "NUL"
                       /\ r.errno = 0
                       /\ IntLE(MkInt(FALSE, <<>>), r.n)
                       /\ IntLE(r.n, UintMax(64)),
             out   |-> <<CastUnsigned(r.n, 64)>>,
             errno |-> r.errno]

ParseUint64(str, e) ==
    IF ~ParsePrechecks(str) THEN [ret |-> FALSE, out |-> <<>>, errno |-> e]
    ELSE LET r == strtoull(c_str(str), 0)
         IN [ret   |-> /\ Deref(c_str(str), r.endp) = "NUL"
                       /\ r.errno = 0
                       /\ IntLE(MkInt(FALSE, <<>>), r.n)
                       /\ IntLE(r.n, UintMax(64)),
             out   |-> <<CastUnsigned(r.n, 64)>>,
             errno |-> r.errno]

(* ------------------------------------------------------------------ *)
(* operator>>(double) of a classic-locale std::istringstream            *)
(*                                                                      *)
(* Two standard libraries are modelled.  "libstdc++" accumulates only a *)
(* decimal floating literal and fails on overflow alone; "libc++"       *)
(* accumulates every character strtod may use, so that it also accepts  *)
(* the hexadecimal form, fails whenever strtod reports ERANGE and puts  *)
(* errno back.  The value is kept as exact decimal text (coefficient    *)
(* and adjusted exponent), before any rounding to binary64.  The words  *)
(* "inf" and "nan" and the capitals "E" and "P" are outside the         *)
(* alphabet; a hexadecimal literal is taken to be in range; the two     *)
(* range limits are compared to twenty significant digits.              *)
(* ------------------------------------------------------------------ *)

\* the small value of a digit run, capped so that adding to it stays small
RECURSIVE SmallValue(_, _)
SmallValue(ds, acc) ==
    IF ds = <<>> THEN acc
    ELSE IF acc > 99999 THEN acc
    ELSE SmallValue(Tail(ds), acc * 10 + DigitVal(Head(ds)))

\* ds without its leading zeros
StripZeros(ds) == SubSeq(ds, SkipSet(ds, 1, {"0"}), Len(ds))

\* -1, 0, 1: digit strings compared as fractions 0.a and 0.b
RECURSIVE FracCmp(_, _, _)
FracCmp(a, b, i) ==
    IF i > Len(a) /\ i > Len(b) THEN 0
    ELSE LET x == IF i > Len(a) THEN 0 ELSE DigitVal(a[i])
             y == IF i > Len(b) THEN 0 ELSE DigitVal(b[i])
         IN IF x < y THEN -1 ELSE IF x > y THEN 1 ELSE FracCmp(a, b, i + 1)

\* 2^1024 - 2^970 = 1.7976931348623158079...e308, the least magnitude that
\* rounds to infinity, to twenty digits
OverflowDigits ==
    <<"1", "7", "9", "7", "6", "9", "3", "1", "3", "4",
      "8", "6", "2", "3", "1", "5", "8", "0", "7", "9">>

\* 2^-1022 = 2.2250738585072013830...e-308, the least normal magnitude, to
\* twenty digits
MinNormalDigits ==
    <<"2", "2", "2", "5", "0", "7", "3", "8", "5", "8",
      "5", "0", "7", "2", "0", "1", "3", "8", "3", "0">>

\* the character at index i of s, NUL outside of s
At(s, i) == IF 1 <= i /\ i <= Len(s) THEN s[i] ELSE "NUL"

\* the index after an optional sign at i
ScanSign(s, i) == IF At(s, i) \in {"+", "-"} THEN i + 1 ELSE i

\* the index after an optional point at i and the digits behind it
ScanPoint(s, i, DS) == IF At(s, i) = "." THEN SkipSet(s, i + 1, DS) ELSE i

\* the index of the first exponent digit after the letter x at i and an
\* optional sign; i itself when the letter is not there
ScanExp(s, i, x) == IF At(s, i) = x THEN ScanSign(s, i + 1) ELSE i

\* The parts of a floating literal that starts at j with digits DS and
\* exponent letter x: the whole part is s[j .. d1-1], the fraction
\* s[d1+1 .. d2-1], the exponent digits s[ej .. ek-1].
FloatExpEnd(s, j, d1, d2, ej) ==
    [j |-> j, d1 |-> d1, d2 |-> d2, ej |-> ej,
     ek |-> IF ej > d2 THEN SkipSet(s, ej, Digits) ELSE d2]

FloatExp(s, j, d1, d2, x) == FloatExpEnd(s, j, d1, d2, ScanExp(s, d2, x))

FloatFrac(s, j, d1, DS, x) == FloatExp(s, j, d1, ScanPoint(s, d1, DS), x)

FloatParts(s, j, DS, x) == FloatFrac(s, j, SkipSet(s, j, DS), DS, x)

WholePart(s, f) == SubSeq(s, f.j, f.d1 - 1)

FracPart(s, f) == IF f.d2 > f.d1 THEN SubSeq(s, f.d1 + 1, f.d2 - 1) ELSE <<>>

\* at least one mantissa digit
HasMantissa(s, f) == WholePart(s, f) \o FracPart(s, f) # <<>>

\* the literal is well formed and is all of s
FloatOk(s, f) ==
    /\ HasMantissa(s, f)
    /\ f.ej > f.d2 => f.ek > f.ej
    /\ f.ek > Len(s)

ExpValue(s, f) ==
    IF f.ej = f.d2 THEN 0
    ELSE IF At(s, f.ej - 1) = "-" THEN 0 - SmallValue(SubSeq(s, f.ej, f.ek - 1), 0)
    ELSE SmallValue(SubSeq(s, f.ej, f.ek - 1), 0)

\* sign? (digits+ [. digits*] | . digits+) [e sign? digits+], all of t:
\* the coefficient without leading zeros and the adjusted exponent
DecResult(t, f) ==
    [ok   |-> FloatOk(t, f),
     neg  |-> At(t, 1) = "-",
     coef |-> StripZeros(WholePart(t, f) \o FracPart(t, f)),
     exp  |-> ExpValue(t, f) + Len(StripZeros(WholePart(t, f) \o FracPart(t, f))) - 1
              - Len(FracPart(t, f))]

MatchDec(t) == DecResult(t, FloatParts(t, ScanSign(t, 1), Digits, "e"))

\* sign? 0 (x|X) (hex+ [. hex*] | . hex+) [p sign? digits+], all of t
HexResult(t, j, f) ==
    [ok   |-> At(t, j) = "0" /\ At(t, j + 1) \in {"x", "X"} /\ FloatOk(t, f),
     neg  |-> At(t, 1) = "-",
     coef |-> <<"x">> \o WholePart(t, f) \o <<".">> \o FracPart(t, f),
     exp  |-> ExpValue(t, f)]

MatchHex(t) == HexResult(t, ScanSign(t, 1), FloatParts(t, ScanSign(t, 1) + 2, HexDigits, "p"))

\* "zero", "over", "under" or "normal" for coefficient c (no leading zero)
\* and adjusted exponent x
DblClass(c, x) ==
    IF c = <<>> THEN "zero"
    ELSE IF x > 308 \/ (x = 308 /\ FracCmp(c, OverflowDigits, 1) >= 0) THEN "over"
    ELSE IF x < 0 - 308 \/ (x = 0 - 308 /\ FracCmp(c, MinNormalDigits, 1) < 0) THEN "under"
    ELSE "normal"

HexClass(c) == IF SkipSet(c, 2, {"0", "."}) > Len(c) THEN "zero" ELSE "normal"

\* the double of class cls that the matched literal m denotes
DblValue(cls, m) ==
    [ok |-> TRUE, cls |-> cls,
     value |-> [cls |-> cls, neg |-> m.neg,
                coef |-> IF cls = "normal" THEN m.coef ELSE <<>>,
                exp  |-> IF cls = "normal" THEN m.exp ELSE 0]]

StrToDResult(d, h, hex) ==
    IF d.ok THEN DblValue(DblClass(d.coef, d.exp), d)
    ELSE IF hex /\ h.ok THEN DblValue(HexClass(h.coef), h)
    ELSE [ok |-> FALSE, cls |-> "zero",
          value |-> [cls |-> "zero", neg |-> FALSE, coef |-> <<>>, exp |-> 0]]

\* strtod on the accumulated text t: [ok, cls, value]
StrToD(t, hex) == StrToDResult(MatchDec(t), MatchHex(t), hex)

\* libstdc++ stage 2 (_M_extract_float): the index after the last character
\* accumulated from i on: sign? digits* [. digits*] [e sign? digits*], the
\* exponent letter only after a mantissa digit
Stage2GnuEnd(s, f) == IF HasMantissa(s, f) THEN f.ek ELSE f.d2

Stage2Gnu(s, i) == Stage2GnuEnd(s, FloatParts(s, ScanSign(s, i), Digits, "e"))

\* libc++ stage 2 (__stage2_float_loop): every atom is accumulated, a sign
\* only first or right after the exponent letter, the point only once and
\* before the exponent; 'x' makes 'p' the exponent letter
RECURSIVE Stage2Llvm(_, _, _, _, _)
Stage2Llvm(s, i, start, expc, inUnits) ==
    IF i > Len(s) THEN i
    ELSE IF s[i] = "."
    THEN (IF inUnits THEN Stage2Llvm(s, i + 1, start, expc, FALSE) ELSE i)
    ELSE IF s[i] \notin Digits \cup {"a", "e", "p", "x", "X", "+", "-"} THEN i
    ELSE IF s[i] \in {"+", "-"}
    THEN (IF i = start \/ s[i - 1] = expc
          THEN Stage2Llvm(s, i + 1, start, expc, inUnits) ELSE i)
    ELSE IF s[i] \in {"x", "X"} THEN Stage2Llvm(s, i + 1, start, "p", inUnits)
    ELSE IF s[i] = expc THEN Stage2Llvm(s, i + 1, start, expc, FALSE)
    ELSE Stage2Llvm(s, i + 1, start, expc, inUnits)

\* stage 2 from i on, white space skipped: the accumulated text is s[i .. k-1]
Accumulate(s, i, l) ==
    [i |-> i,
     k |-> IF l = "libc++" THEN Stage2Llvm(s, i, i, "e", TRUE) ELSE Stage2Gnu(s, i)]

\* stage 3: the stream state and the value after the conversion r
Extracted(e, l, eof, r) ==
    [eof   |-> eof,
     fail  |-> \/ ~r.ok
               \/ r.cls = "over"
               \/ (l = "libc++" /\ r.cls = "under"),
     value |-> r.value,
     errno |-> IF l = "libstdc++" /\ r.ok /\ r.cls \in {"over", "under"}
               THEN ERANGE ELSE e]

Stage3(s, e, l, acc) ==
    Extracted(e, l, acc.k > Len(s), StrToD(SubSeq(s, acc.i, acc.k - 1), l = "libc++"))

\* text >> result: [eof, fail, value, errno]
ExtractDouble(s, e, l) == Stage3(s, e, l, Accumulate(s, SkipSet(s, 1, Spaces), l))

ParseDouble(str, e, l) ==
    IF ~ParsePrechecks(str) THEN [ret |-> FALSE, out |-> <<>>, errno |-> e]
    ELSE IF Len(str) >= 2 /\ str[1] = "0" /\ str[2] = "x"
    THEN [ret |-> FALSE, out |-> <<>>, errno |-> e]
    ELSE LET text == ExtractDouble(str, e, l)
         IN [ret   |-> text.eof /\ ~text.fail,
             out   |-> <<text.value>>,
             errno |-> text.errno]

(* ------------------------------------------------------------------ *)
(* UniValue: the tag, the stored string, the keys and the child values  *)
(* ------------------------------------------------------------------ *)

VType == {"VNULL", "VOBJ", "VARR", "VSTR", "VNUM", "VBOOL"}

isObject(t) == t = "VOBJ"

isArray(t) == t = "VARR"

isBool(t) == t = "VBOOL"

isStr(t) == t = "VSTR"

isNum(t) == t = "VNUM"

getValStr(v) == v

getBool(t, v) == t = "VBOOL" /\ v = <<"1">>

\* An accessor gives [kind, msg, value, errno]: it throws std::runtime_error
\* with a message, or it returns a value; errno is errno after the call.
Throw(msg, e) == [kind |-> "throw", msg |-> msg, value |-> <<>>, errno |-> e]

Return(x, e) == [kind |-> "return", msg |-> "", value |-> <<x>>, errno |-> e]

getKeys(t, ks, e) ==
    IF ~isObject(t) THEN Throw("JSON value is not an object as expected", e)
    ELSE Return(ks, e)

getValues(t, vs, e) ==
    IF ~isObject(t) /\ ~isArray(t)
    THEN Throw("JSON value is not an object or array as expected", e)
    ELSE Return(vs, e)

get_bool(t, v, e) ==
    IF ~isBool(t) THEN Throw("JSON value is not a boolean as expected", e)
    ELSE Return(getBool(t, v), e)

get_str(t, v, e) ==
    IF ~isStr(t) THEN Throw("JSON value is not a string as expected", e)
    ELSE Return(getValStr(v), e)

\* get_int parsing before it looks at the tag
get_int_ParseFirst(t, v, e, bits) ==
    LET p == ParseInt32(getValStr(v), e, bits)
    IN IF ~p.ret THEN Throw("JSON integer out of range", p.errno)
       ELSE IF ~isNum(t) THEN Throw("JSON value is not an integer as expected", p.errno)
       ELSE Return(p.out[1], p.errno)

get_int(t, v, e, bits) ==
    IF ~isNum(t) THEN Throw("JSON value is not an integer as expected", e)
    ELSE LET p == ParseInt32(getValStr(v), e, bits)
         IN IF ~p.ret THEN Throw("JSON integer out of range", p.errno)
            ELSE Return(p.out[1], p.errno)

get_int64(t, v, e) ==
    IF ~isNum(t) THEN Throw("JSON value is not an integer as expected", e)
    ELSE LET p == ParseInt64(getValStr(v), e)
         IN IF ~p.ret THEN Throw("JSON integer out of range", p.errno)
            ELSE Return(p.out[1], p.errno)

get_uint64(t, v, e) ==
    IF t # "VNUM" THEN Throw("JSON value is not an integer as expected", e)
    ELSE LET p == ParseUint64(getValStr(v), e)
         IN IF ~p.ret THEN Throw("JSON integer out of range", p.errno)
            ELSE Return(p.out[1], p.errno)

get_uint32(t, v, e) ==
    IF t # "VNUM" THEN Throw("JSON value is not an integer as expected", e)
    ELSE LET p == ParseUint64(getValStr(v), e)
         IN IF ~p.ret THEN Throw("JSON integer out of range", p.errno)
            ELSE IF IntLE(UintMax(32), p.out[1])
            THEN Throw("JSON integer out of range", p.errno)
            ELSE Return(CastUnsigned(p.out[1], 32), p.errno)

get_uint16(t, v, e) ==
    IF t # "VNUM" THEN Throw("JSON value is not an integer as expected", e)
    ELSE LET p == ParseUint64(getValStr(v), e)
         IN IF ~p.ret THEN Throw("JSON integer out of range", p.errno)
            ELSE IF IntLE(UintMax(16), p.out[1])
            THEN Throw("JSON integer out of range", p.errno)
            ELSE Return(CastUnsigned(p.out[1], 16), p.errno)

\* get_uint8 with the maximum let through (parseval > max)
get_uint8_Inclusive(t, v, e) ==
    IF t # "VNUM" THEN Throw("JSON value is not an integer as expected", e)
    ELSE LET p == ParseUint64(getValStr(v), e)
         IN IF ~p.ret THEN Throw("JSON integer out of range", p.errno)
            ELSE IF IntLE(UintMax(8), p.out[1]) /\ p.out[1] # UintMax(8)
            THEN Throw("JSON integer out of range", p.errno)
            ELSE Return(CastUnsigned(p.out[1], 8), p.errno)

get_uint8(t, v, e) ==
    IF t # "VNUM" THEN Throw("JSON value is not an integer as expected", e)
    ELSE LET p == ParseUint64(getValStr(v), e)
         IN IF ~p.ret THEN Throw("JSON integer out of range", p.errno)
            ELSE IF IntLE(UintMax(8), p.out[1])
            THEN Throw("JSON integer out of range", p.errno)
            ELSE Return(CastUnsigned(p.out[1], 8), p.errno)

get_real(t, v, e, l) ==
    IF ~isNum(t) THEN Throw("JSON value is not a number as expected", e)
    ELSE LET p == ParseDouble(getValStr(v), e, l)
         IN IF ~p.ret THEN Throw("JSON double out of range", p.errno)
            ELSE Return(p.out[1], p.errno)

get_obj(t, v, ks, vs, e) ==
    IF ~isObject(t) THEN Throw("JSON value is not an object as expected", e)
    ELSE Return([typ |-> t, val |-> v, keys |-> ks, values |-> vs], e)

get_array(t, v, ks, vs, e) ==
    IF ~isArray(t) THEN Throw("JSON value is not an array as expected", e)
    ELSE Return([typ |-> t, val |-> v, keys |-> ks, values |-> vs], e)

(* ------------------------------------------------------------------ *)
(* Inputs                                                               *)
(* ------------------------------------------------------------------ *)

\* every string over S of length at most n
Strings(n, S) == UNION {[1..k -> S] : k \in 0..n}

\* the values around the edges of the 8, 16, 32 and 64 bit types
BoundaryNats ==
    UNION {{Sub(Pow2(k), <<2>>), Sub(Pow2(k), One), Norm(Pow2(k)), MulAdd(Pow2(k), 1, 1)}
           : k \in {8, 16, 31, 32, 63, 64}}
    \cup {<<>>, <<1>>, <<42>>, <<34464, 1>>}

Cores == {ToDigits(n) : n \in BoundaryNats} \cup {[i \in 1..21 |-> "9"]}

Pads == {[i \in 1..n |-> "0"] : n \in 0..MaxPad}

ShortChars ==
    {"0", "1", "9", "-", "+", ".", "e", "x", "X", "p", "a", "SP", "HT", "VT", "NUL"}

\* floating literals: plain, out of range either way, hexadecimal, malformed
DoubleTexts ==
    {<<"1", ".", "5", "e", "1", "0">>,
     <<"1", "e", "3", "0", "8">>, <<"1", "e", "3", "0", "9">>,
     <<"1", "e", "-", "3", "0", "9">>, <<"-", "2", "e", "3", "0", "8">>,
     <<"0", "x", "1", "p", "0">>, <<"0", "X", "1", "p", "0">>,
     <<"0", "X", ".", "a", "p", "-", "1">>, <<"-", "0", "x", "1", "p", "0">>,
     <<"0", "X", "1", "p">>, <<"1", ".", "2", ".", "3">>, <<"1", "e", "+">>}

ParseInputs ==
    {p \o z \o c \o t :
        p \in {<<>>, <<"-">>, <<"+">>, <<"SP">>, <<"VT">>, <<"VT", "-">>},
        z \in Pads, c \in Cores,
        t \in {<<>>, <<"SP">>, <<"NUL">>, <<"NUL", "1">>, <<"x">>, <<".", "0">>}}
    \cup Strings(MaxLen, ShortChars)
    \cup DoubleTexts

\* the stored strings of the values the accessors are called on
ValInputs ==
    {p \o z \o c : p \in {<<>>, <<"-">>}, z \in Pads, c \in Cores}
    \cup Strings(MaxLen, {"0", "7", "-", "SP", "x"})
    \cup DoubleTexts
    \cup {<<"+", "4", "2">>, <<"VT", "7">>, <<"7", "NUL">>, <<"1">>}

\* the stored strings of the values an accessor is called on repeatedly
RepeatInputs ==
    {<<>>, <<"4", "2">>, <<"-", "1">>, <<"x">>, <<"1">>,
     ToDigits(Pow2(32)), ToDigits(Pow2(63)), ToDigits(Pow2(64)),
     <<"1", "e", "3", "0", "9">>, <<"1", "e", "-", "3", "0", "9">>,
     <<"0", "X", "1", "p", "0">>}

\* tag, keys and child values of the values that are built
Shapes ==
    {[typ |-> t, keys |-> <<>>, values |-> <<>>] : t \in VType}
    \cup {[typ |-> "VOBJ", keys |-> <<"a", "b">>, values |-> <<"child1", "child2">>],
          [typ |-> "VARR", keys |-> <<>>, values |-> <<"child1">>]}

(* ------------------------------------------------------------------ *)
(* The state machine                                                    *)
(* ------------------------------------------------------------------ *)

NoCall == [op |-> "none", kind |-> "none", msg |-> "", value |-> <<>>]

Untracked == [op |-> "untracked", kind |-> "none", msg |-> "", value |-> <<>>]

\* the platform: the width of long, the standard library, errno on entry
Platform ==
    /\ longBits \in {32, 64}
    /\ lib \in {"libstdc++", "libc++"}
    /\ errno \in {0, EINTR}

\* a value after construction, no accessor called yet
Init ==
    /\ \E sh \in Shapes : typ = sh.typ /\ keys = sh.keys /\ values = sh.values
    /\ val \in ValInputs
    /\ Platform
    /\ first = Untracked
    /\ last = NoCall

\* the same, the first call being remembered
InitRepeat ==
    /\ \E sh \in Shapes : typ = sh.typ /\ keys = sh.keys /\ values = sh.values
    /\ val \in RepeatInputs
    /\ Platform
    /\ first = NoCall
    /\ last = NoCall

\* a string handed to the parsers directly
InitParse ==
    /\ typ = "VSTR" /\ keys = <<>> /\ values = <<>>
    /\ val \in ParseInputs
    /\ Platform
    /\ first = Untracked
    /\ last = NoCall

\* the call of accessor op with outcome r: const on the value
Call(op, r) ==
    /\ last' = [op |-> op, kind |-> r.kind, msg |-> r.msg, value |-> r.value]
    /\ first' = IF first = NoCall THEN last' ELSE first
    /\ errno' = r.errno
    /\ UNCHANGED <<typ, val, keys, values, longBits, lib>>

\* the call of parser op with result p
CallParser(op, p) ==
    /\ last' = [op |-> op, kind |-> IF p.ret THEN "true" ELSE "false", msg |-> "",
                value |-> p.out]
    /\ errno' = p.errno
    /\ UNCHANGED <<typ, val, keys, values, longBits, lib, first>>

Do_getKeys == Call("getKeys", getKeys(typ, keys, errno))

Do_getValues == Call("getValues", getValues(typ, values, errno))

Do_get_bool == Call("get_bool", get_bool(typ, val, errno))

Do_get_str == Call("get_str", get_str(typ, val, errno))

Do_get_int == Call("get_int", get_int(typ, val, errno, longBits))

Do_get_int64 == Call("get_int64", get_int64(typ, val, errno))

Do_get_uint64 == Call("get_uint64", get_uint64(typ, val, errno))

Do_get_uint32 == Call("get_uint32", get_uint32(typ, val, errno))

Do_get_uint16 == Call("get_uint16", get_uint16(typ, val, errno))

Do_get_uint8 == Call("get_uint8", get_uint8(typ, val, errno))

Do_get_real == Call("get_real", get_real(typ, val, errno, lib))

Do_get_obj == Call("get_obj", get_obj(typ, val, keys, values, errno))

Do_get_array == Call("get_array", get_array(typ, val, keys, values, errno))

Do_ParseInt32 == CallParser("ParseInt32", ParseInt32(val, errno, longBits))

Do_ParseInt64 == CallParser("ParseInt64", ParseInt64(val, errno))

Do_ParseUint64 == CallParser("ParseUint64", ParseUint64(val, errno))

Do_ParseDouble == CallParser("ParseDouble", ParseDouble(val, errno, lib))

Next ==
    \/ Do_getKeys
    \/ Do_getValues
    \/ Do_get_bool
    \/ Do_get_str
    \/ Do_get_int
    \/ Do_get_int64
    \/ Do_get_uint64
    \/ Do_get_uint32
    \/ Do_get_uint16
    \/ Do_get_uint8
    \/ Do_get_real
    \/ Do_get_obj
    \/ Do_get_array

NextParse ==
    \/ Do_ParseInt32
    \/ Do_ParseInt64
    \/ Do_ParseUint64
    \/ Do_ParseDouble

\* the accessors called, in any order, on one value
Spec == Init /\ [][Next]_vars

\* the same, with the outcome of the first call kept
SpecRepeat == InitRepeat /\ [][Next]_vars

\* the parsers called, in any order, on one string
SpecParse == InitParse /\ [][NextParse]_vars

(* ------------------------------------------------------------------ *)
(* Decimal text, read without any arithmetic                            *)
(* ------------------------------------------------------------------ *)

\* an optional '-' and one or more decimal digits, nothing else
IsDecimalInt(s) ==
    LET j == IF s # <<>> /\ s[1] = "-" THEN 2 ELSE 1
    IN j <= Len(s) /\ SkipSet(s, j, Digits) > Len(s)

\* one or more decimal digits, nothing else
IsDigitString(s) == s # <<>> /\ SkipSet(s, 1, Digits) > Len(s)

\* a < b for digit strings without leading zeros
RECURSIVE LexLess(_, _, _)
LexLess(a, b, i) ==
    IF i > Len(a) THEN FALSE
    ELSE IF DigitVal(a[i]) < DigitVal(b[i]) THEN TRUE
    ELSE IF DigitVal(a[i]) > DigitVal(b[i]) THEN FALSE
    ELSE LexLess(a, b, i + 1)

DecLess(a, b) ==
    IF Len(a) # Len(b) THEN Len(a) < Len(b) ELSE LexLess(a, b, 1)

DecLeq(a, b) == a = b \/ DecLess(a, b)

\* the digits of s after its sign, without leading zeros (<<>> for zero)
Magnitude(s) ==
    LET i == SkipSet(s, 1, Spaces)
        j == IF i <= Len(s) /\ s[i] \in {"+", "-"} THEN i + 1 ELSE i
    IN StripZeros(SubSeq(s, j, Len(s)))

Negative(s) ==
    LET i == SkipSet(s, 1, Spaces)
    IN i <= Len(s) /\ s[i] = "-" /\ Magnitude(s) # <<>>

\* s without leading white space, '+' and leading zeros; zero is "0"
Canonical(s) ==
    IF Magnitude(s) = <<>> THEN <<"0">>
    ELSE (IF Negative(s) THEN <<"-">> ELSE <<>>) \o Magnitude(s)

\* s with one leading '+' removed
StripPlus(s) == IF s # <<>> /\ s[1] = "+" THEN Tail(s) ELSE s

Text255 == <<"2", "5", "5">>

Text65535 == <<"6", "5", "5", "3", "5">>

Text2147483647 == <<"2", "1", "4", "7", "4", "8", "3", "6", "4", "7">>

Text2147483648 == <<"2", "1", "4", "7", "4", "8", "3", "6", "4", "8">>

Text2147483649 == <<"2", "1", "4", "7", "4", "8", "3", "6", "4", "9">>

Text4294967295 == <<"4", "2", "9", "4", "9", "6", "7", "2", "9", "5">>

Text9223372036854775807 ==
    <<"9", "2", "2", "3", "3", "7", "2", "0", "3", "6",
      "8", "5", "4", "7", "7", "5", "8", "0", "7">>

Text9223372036854775808 ==
    <<"9", "2", "2", "3", "3", "7", "2", "0", "3", "6",
      "8", "5", "4", "7", "7", "5", "8", "0", "8">>

Text18446744073709551615 ==
    <<"1", "8", "4", "4", "6", "7", "4", "4", "0", "7",
      "3", "7", "0", "9", "5", "5", "1", "6", "1", "5">>

NumericOps ==
    {"get_int", "get_int64", "get_uint64", "get_uint32", "get_uint16", "get_uint8",
     "get_real"}

UnsignedOps == {"get_uint64", "get_uint32", "get_uint16", "get_uint8"}

ParserOps == {"ParseInt32", "ParseInt64", "ParseUint64", "ParseDouble"}

MismatchMsg(op) ==
    IF op = "get_real" THEN "JSON value is not a number as expected"
    ELSE "JSON value is not an integer as expected"

RangeMsg(op) ==
    IF op = "get_real" THEN "JSON double out of range" ELSE "JSON integer out of range"

(* ------------------------------------------------------------------ *)
(* The claims                                                           *)
(* ------------------------------------------------------------------ *)

\* C1: on a value whose tag is not Number, whatever its stored string, every
\* numeric accessor throws its type-mismatch message, never the range
\* message, and the parse is not even started: errno is as it was.
C1_TypeMismatchBeforeParse ==
    [][(typ # "VNUM" /\ last'.op \in NumericOps)
         => /\ last'.kind = "throw"
            /\ last'.msg = MismatchMsg(last'.op)
            /\ last'.msg # RangeMsg(last'.op)
            /\ errno' = errno]_vars

\* C1 witness: get_real called on a String value that stores "42"
C1_Witness ==
    /\ typ = "VSTR" /\ val = <<"4", "2">>
    /\ last.op = "get_real" /\ last.kind = "throw"

\* C2 (as claimed): for a Number value storing a negative decimal integer that
\* fits int64, get_uint64 throws 'JSON integer out of range' and get_int64
\* returns that integer.
C2_NegativeRejectedByUint64 ==
    (/\ typ = "VNUM" /\ IsDecimalInt(val) /\ Negative(val)
     /\ DecLeq(Magnitude(val), Text9223372036854775808))
      => /\ last.op = "get_uint64"
              => (last.kind = "throw" /\ last.msg = "JSON integer out of range")
         /\ last.op = "get_int64"
              => (last.kind = "return" /\ IntText(last.value[1]) = Canonical(val))

\* C3: for an optional '-' and digits, ParseInt32 returns true exactly when
\* the integer lies in [-2147483648, 2147483647], and then the output slot
\* holds it; the four edge texts behave so for a long of 32 or of 64 bits.
C3_Int32RangeExact ==
    (last.op = "ParseInt32" /\ IsDecimalInt(val))
      => /\ last.kind = "true"
              <=> DecLeq(Magnitude(val),
                         IF Negative(val) THEN Text2147483648 ELSE Text2147483647)
         /\ last.kind = "true" => IntText(last.value[1]) = Canonical(val)
         /\ val \in {Text2147483647, <<"-">> \o Text2147483648} => last.kind = "true"
         /\ val \in {Text2147483648, <<"-">> \o Text2147483649} => last.kind = "false"

\* C3 witness: "-2147483648" accepted where long has 32 bits
C3_Witness ==
    /\ val = <<"-">> \o Text2147483648 /\ longBits = 32
    /\ last.op = "ParseInt32" /\ last.kind = "true"

\* C4: for a Number value storing digits of value v, get_uint8, get_uint16 and
\* get_uint32 return exactly when v < 255, v < 65535, v < 4294967295 and
\* otherwise throw 'JSON integer out of range'; get_uint64 returns exactly
\* when v <= 18446744073709551615, get_int64 when v <= 9223372036854775807,
\* and get_int64 returns on "-9223372036854775808".
C4_NarrowingExcludesMaximum ==
    /\ (typ = "VNUM" /\ IsDigitString(val) /\ last.op \in UnsignedOps \cup {"get_int64"})
         => /\ last.kind = "return"
                 <=> CASE last.op = "get_uint8" -> DecLess(Magnitude(val), Text255)
                       [] last.op = "get_uint16" -> DecLess(Magnitude(val), Text65535)
                       [] last.op = "get_uint32" -> DecLess(Magnitude(val), Text4294967295)
                       [] last.op = "get_uint64" ->
                              DecLeq(Magnitude(val), Text18446744073709551615)
                       [] last.op = "get_int64" ->
                              DecLeq(Magnitude(val), Text9223372036854775807)
            /\ last.kind # "return"
                 => (last.kind = "throw" /\ last.msg = "JSON integer out of range")
    /\ (typ = "VNUM" /\ val = <<"-">> \o Text9223372036854775808 /\ last.op = "get_int64")
         => last.kind = "return"

\* C4 witness: get_uint8 throws on a Number value that stores "255"
C4_Witness ==
    /\ typ = "VNUM" /\ val = Text255
    /\ last.op = "get_uint8" /\ last.kind = "throw"

C6_RoundTripStripPlus ==
    (last.op = "ParseInt32" /\ last.kind = "true")
      => IntText(last.value[1]) = StripPlus(val)

\* C6 (amended): when ParseInt32 returns true, the decimal text of the result
\* is the input without its leading white space, without a leading '+' and
\* without redundant leading zeros, a zero being written "0".
C6_RoundTripCanonical ==
    (last.op = "ParseInt32" /\ last.kind = "true")
      => IntText(last.value[1]) = Canonical(val)

\* C6 witness: "-2147483648" with a redundant zero is accepted
C6_Witness ==
    /\ val = <<"-", "0">> \o Text2147483648
    /\ last.op = "ParseInt32" /\ last.kind = "true"

\* C7: when ParseInt32 returns true on a string, ParseInt64 returns true on it
\* too, and the two output slots hold the same integer.
C7_Int32ImpliesInt64 ==
    (last.op = "ParseInt32" /\ last.kind = "true")
      => /\ ParseInt64(val, errno).ret
         /\ ParseInt64(val, errno).out = last.value

\* C7 witness: ParseInt32 accepted "2147483647"
C7_Witness ==
    /\ val = Text2147483647
    /\ last.op = "ParseInt32" /\ last.kind = "true"

\* C8 (as claimed): ParseDouble returns false on every string that begins with
\* "0x" or "0X", and get_real on a Number value storing such a string throws
\* 'JSON double out of range'.
C8_HexFloatRejected ==
    (/\ typ = "VNUM" /\ last.op = "get_real"
     /\ Len(val) >= 2 /\ val[1] = "0" /\ val[2] \in {"x", "X"})
      => /\ ~ParseDouble(val, errno, lib).ret
         /\ last.kind = "throw" /\ last.msg = "JSON double out of range"

\* C9 (as claimed): a call leaves the tag, the stored string, the keys and the
\* child values as they were, gives the outcome the first call of the same
\* accessor gave, and changes nothing else that can be observed.
C9_NoSideEffect ==
    [][/\ UNCHANGED <<typ, val, keys, values>>
       /\ last'.op = first'.op => last' = first'
       /\ errno' = errno]_vars

\* C9 (amended): a call leaves the tag, the stored string, the keys and the
\* child values as they were and gives the outcome the first call of the same
\* accessor gave; the one other effect is on errno, which a numeric accessor
\* called on a Number value may set to 0 or to ERANGE.
C9_NoSideEffectButErrno ==
    [][/\ UNCHANGED <<typ, val, keys, values>>
       /\ last'.op = first'.op => last' = first'
       /\ errno' # errno
            => (typ = "VNUM" /\ last'.op \in NumericOps /\ errno' \in {0, ERANGE})]_vars

\* C9 witness: get_uint64 was the first call, and returned, and is the latest
\* call on a Number value storing "9223372036854775808", on which get_int64
\* leaves ERANGE behind
C9_Witness ==
    /\ typ = "VNUM" /\ val = Text9223372036854775808
    /\ first.op = "get_uint64" /\ first.kind = "return"
    /\ last.op = "get_uint64" /\ errno = 0

\* C10 (as claimed): what an unsigned accessor returns for a Number value is
\* the integer the stored text denotes, and no text with a '-' makes it
\* return a positive number.
C10_UnsignedExact ==
    (typ = "VNUM" /\ last.op \in UnsignedOps /\ last.kind = "return")
      => /\ IntText(last.value[1]) = Canonical(val)
         /\ (\E i \in 1..Len(val) : val[i] = "-") => last.value[1].mag = <<>>

====
